---- MODULE Spec2Model ----
(***************************************************************************)
(* Model of the PyratasDev license API (src/pyratas_api.py): the license   *)
(* registry, the activation ledger and the usage log kept in one SQLite    *)
(* database behind one shared connection, and the /activate, /validate,    *)
(* /renew and /usage handlers.  The handlers are plain `def` endpoints, so *)
(* FastAPI runs them on a thread pool: a handler is a sequence of SQL      *)
(* statements, each statement atomic, and the statements of different      *)
(* requests interleave.  Every action below is one SQL statement on the    *)
(* activation or usage table together with the local computation (and the  *)
(* reads of the immutable license table) that precede it.                  *)
(*                                                                         *)
(* Strings are sequences of characters, so that str.strip() is computed.   *)
(* Time is counted in ticks, TicksPerSec to the second: datetime.utcnow()  *)
(* is finer than a second, strftime("%Y-%m-%d %H:%M:%S") keeps the whole   *)
(* seconds only and strptime gives the instant that second starts.         *)
(***************************************************************************)
EXTENDS Integers, Sequences, FiniteSets, TLC

\* ------------------------------------------------------------------ bounds
NumThreads == 2        \* request threads of the pool that the model runs
MaxUsage == 3          \* requests are admitted while the usage log can hold them
MaxSubTicks == 1       \* clock steps of one tick within a 30-day period
TicksPerSec == 2       \* resolution of the clock: ticks to the second
MaxFaults == 1         \* usage INSERTs that are let fail

\* ------------------------------------------------------- program constants
SecondsPerDay == 86400
TTL_DAYS == 30
ThirtyDays == TTL_DAYS * SecondsPerDay * TicksPerSec   \* timedelta(days=30), in ticks

\* the clock is followed until one token lifetime has passed
Horizon == ThirtyDays

Threads == 1..NumThreads

\* ------------------------------------------------------------------ strings
WS == {" "}

RECURSIVE LStrip(_)
LStrip(s) == IF s # <<>> /\ Head(s) \in WS THEN LStrip(Tail(s)) ELSE s

RECURSIVE RStrip(_)
RStrip(s) == IF s # <<>> /\ s[Len(s)] \in WS THEN RStrip(SubSeq(s, 1, Len(s) - 1)) ELSE s

\* str.strip()
Strip(s) == RStrip(LStrip(s))

\* hashlib.sha256(s).hexdigest(): a collision-free digest, tagged so that a
\* digest is never equal to the text it was computed from
sha256(s) == <<"sha256:">> \o s

\* str(uuid.uuid4()) for the n-th uuid drawn: distinct for distinct n
Uuid(n) == [i \in 1..n |-> "u"]

\* datetime.strftime("%Y-%m-%d %H:%M:%S"): the whole second, as stored text
strftime(t) == t \div TicksPerSec

\* datetime.strptime(s, "%Y-%m-%d %H:%M:%S"): the instant the second starts
strptime(s) == s * TicksPerSec

\* now_utc_str()
now_utc_str(t) == strftime(t)

\* a bug: a missing max_devices counts as 0
OrOne_Zero(v) == IF v = <<>> THEN 0 ELSE v[1]

\* row["max_devices"] or 1, the value of a column being <<>> for NULL and <<n>>
\* for the integer n: None and 0 are falsy
OrOne(v) == IF v = <<>> \/ v = <<0>> THEN 1 ELSE v[1]

\* ------------------------------------------------------------------- inputs
RawKeys == { <<>>, <<" ">>, <<"A">>, <<" ", "A", " ">>, <<"a">>, <<"B">>, <<"S">>, <<"X">> }
RawDevices == { <<>>, <<"D1">>, <<"D1", " ">>, <<"D2">> }
Fingerprints == { "{}" }

\* the license table, provisioned elsewhere and never written by the API
Registry ==
    { [license_key_hash |-> sha256(<<"A">>), status |-> "active",    max_devices |-> <<1>>],
      [license_key_hash |-> sha256(<<"B">>), status |-> "active",    max_devices |-> <<2>>],
      [license_key_hash |-> sha256(<<"S">>), status |-> "suspended", max_devices |-> <<1>>] }

\* a license table whose active licenses have max_devices 0 and NULL
RegistryUnset ==
    { [license_key_hash |-> sha256(<<"A">>), status |-> "active",    max_devices |-> <<0>>],
      [license_key_hash |-> sha256(<<"B">>), status |-> "active",    max_devices |-> <<>>],
      [license_key_hash |-> sha256(<<"S">>), status |-> "suspended", max_devices |-> <<1>>] }

VARIABLES
    license,      \* table license
    activation,   \* table activation: a set of rows
    usage,        \* table usage: the rows in insertion order
    nextId,       \* AUTOINCREMENT of activation.id
    nextUuid,     \* number of uuids drawn so far + 1
    now,          \* the UTC clock, in ticks
    workers,      \* how many requests the server runs at a time
    faults,       \* usage INSERTs that have failed so far
    th            \* per thread: position in its handler, locals, response

vars == <<license, activation, usage, nextId, nextUuid, now, workers, faults, th>>

NoResp == [code |-> 0, kind |-> "none", token |-> <<>>, exp |-> 0,
           max_devices |-> 0, valid |-> FALSE, reason |-> "none"]

Idle == [pc |-> "idle", op |-> "none", lic_hash |-> <<>>, device_id |-> <<>>, token |-> <<>>,
         fingerprint |-> "{}", event |-> <<>>, row |-> <<>>, max_devices |-> 0,
         qtd |-> 0, exp |-> 0, resp |-> NoResp]

\* raise HTTPException(status_code=code, detail=...)
HTTPException(code, reason) == [NoResp EXCEPT !.code = code, !.kind = "error", !.reason = reason]

\* cursor.fetchone() on the rows a SELECT matched: the first row or None,
\* as a sequence of length at most one
FetchOne(rows) ==
    IF rows = {} THEN <<>>
    ELSE <<CHOOSE r \in rows : \A q \in rows : r.id <= q.id>>

\* the state after _startup(): the tables exist and the ledger and the log
\* are empty
StartedWith(registry) ==
    /\ license = registry
    /\ activation = {}
    /\ usage = <<>>
    /\ nextId = 1
    /\ nextUuid = 1
    /\ now = 0
    /\ faults = 0
    /\ th = [t \in Threads |-> Idle]

Started == StartedWith(Registry)

\* requests run on the thread pool, their statements interleaved
Init == Started /\ workers = NumThreads

\* one request at a time: a request is taken up when no other is in flight
InitSeq == Started /\ workers = 1

\* one request at a time, on the license table RegistryUnset
InitUnset == StartedWith(RegistryUnset) /\ workers = 1

InFlight == Cardinality({t \in Threads : th[t].pc # "idle"})

\* a request is taken up when a worker is free (and, to bound the model,
\* while the usage log has room for what is in flight, a failed INSERT
\* counting as a row); the workers being alike, the idle thread of the lowest
\* number takes it
CanBegin(t) ==
    /\ th[t].pc = "idle" /\ \A u \in 1..(t - 1) : th[u].pc # "idle"
    /\ InFlight < workers /\ Len(usage) + faults + InFlight < MaxUsage

Finish(t, resp) == th' = [th EXCEPT ![t] = [@ EXCEPT !.pc = "done", !.resp = resp]]

\* a handler starts: its locals are those of an idle thread but for `fields`
Start(t, locals) == th' = [th EXCEPT ![t] = locals]

\* ------------------------------------------------------------ SQL statements
\* SELECT status, max_devices FROM license WHERE license_key_hash=?
SelectLicense(tbl, h) == FetchOne({[id |-> 0, status |-> l.status, max_devices |-> l.max_devices] :
                                   l \in {x \in tbl : x.license_key_hash = h}})

\* SELECT COUNT(*) AS c FROM activation WHERE license_key_hash=?
CountActivations(tbl, h) == Cardinality({r \in tbl : r.license_key_hash = h})

\* SELECT 1 FROM activation WHERE license_key_hash=? AND device_id=?
SelectPair(tbl, h, d) == FetchOne({r \in tbl : r.license_key_hash = h /\ r.device_id = d})

\* a bug: at the ceiling nobody is admitted, not even a device that has a row
SlotExhausted_NoReentry(qtd, max_devices, found) == qtd >= max_devices

\* a bug: the ceiling is tested with > instead of >=
SlotExhausted_Strict(qtd, max_devices, found) == qtd > max_devices /\ found = <<>>

\* the admission test of activate: the ceiling is reached and the device holds no slot
SlotExhausted(qtd, max_devices, found) == qtd >= max_devices /\ found = <<>>

\* a bug: the table is UNIQUE(license_key_hash) only, so a row replaces every
\* row of its license
InsertOrReplace_PerLicense(tbl, row) ==
    {r \in tbl : r.license_key_hash # row.license_key_hash} \cup {row}

\* a bug: the table has no UNIQUE constraint, so the statement is a plain INSERT
InsertOrReplace_NoUnique(tbl, row) == tbl \cup {row}

\* INSERT OR REPLACE INTO activation ...: UNIQUE(license_key_hash, device_id)
\* makes the statement delete the row in conflict before it inserts
InsertOrReplace(tbl, row) ==
    {r \in tbl : ~(r.license_key_hash = row.license_key_hash /\ r.device_id = row.device_id)}
        \cup {row}

\* a bug: the row is looked up by token alone
SelectByToken_AnyDevice(tbl, token, d) == FetchOne({r \in tbl : r.token = token})

\* SELECT license_key_hash, expires_at FROM activation WHERE token=? AND device_id=?
SelectByToken(tbl, token, d) == FetchOne({r \in tbl : r.token = token /\ r.device_id = d})

\* a bug: the UPDATE has no WHERE clause
UpdateExpires_All(tbl, new_exp, token) == {[r EXCEPT !.expires_at = new_exp] : r \in tbl}

\* UPDATE activation SET expires_at=? WHERE token=?
UpdateExpires(tbl, new_exp, token) ==
    {IF r.token = token THEN [r EXCEPT !.expires_at = new_exp] ELSE r : r \in tbl}

\* a bug: the log keeps only the latest event of a device
InsertUsage_LatestOnly(log, ts, h, d, event, meta) ==
    LET Others(e) == e.device_id # d
    IN Append(SelectSeq(log, Others),
              [ts |-> ts, license_key_hash |-> h, device_id |-> d,
               event |-> event, meta |-> meta])

\* INSERT INTO usage (ts, license_key_hash, device_id, event, meta) VALUES (?,?,?,?,?)
InsertUsage(log, ts, h, d, event, meta) ==
    Append(log, [ts |-> ts, license_key_hash |-> h, device_id |-> d,
                 event |-> event, meta |-> meta])

\* ------------------------------------------------------------ POST /activate
\* a bug: the status of the license is not looked at
ActivateError_NoStatus(license_key, device_id, lic_row) ==
    IF license_key = <<>> \/ device_id = <<>> THEN HTTPException(400, "missing")
    ELSE IF lic_row = <<>> THEN HTTPException(404, "invalid license")
    ELSE NoResp

\* lines 117-118 and 127-130: the error activate raises before it reads the
\* ledger, or NoResp when it goes on
ActivateError(license_key, device_id, lic_row) ==
    IF license_key = <<>> \/ device_id = <<>> THEN HTTPException(400, "missing")
    ELSE IF lic_row = <<>> THEN HTTPException(404, "invalid license")
    ELSE IF lic_row[1].status # "active" THEN HTTPException(403, "inactive license")
    ELSE NoResp

\* lines 113-134: read and strip the fields, hash the key, look the license
\* up, count the rows of the license
BeginActivate(t, raw_key, raw_dev, fp) ==
    /\ CanBegin(t)
    /\ LET license_key == Strip(raw_key)
           device_id == Strip(raw_dev)
           lic_hash == sha256(license_key)
           lic_row == SelectLicense(license, lic_hash)
           err == ActivateError(license_key, device_id, lic_row)
           locals == [Idle EXCEPT !.op = "activate", !.lic_hash = lic_hash,
                                  !.device_id = device_id, !.fingerprint = fp]
       IN IF err # NoResp
          THEN Start(t, [locals EXCEPT !.pc = "done", !.resp = err])
          ELSE Start(t, [locals EXCEPT !.pc = "act_check",
                                       !.max_devices = OrOne(lic_row[1].max_devices),
                                       !.qtd = CountActivations(activation, lic_hash)])
    /\ UNCHANGED <<license, activation, usage, nextId, nextUuid, now, workers, faults>>

\* lines 136-139: at the ceiling, only a device that has a row is admitted
ActCheck(t) ==
    /\ th[t].pc = "act_check"
    /\ LET found == IF th[t].qtd >= th[t].max_devices
                    THEN SelectPair(activation, th[t].lic_hash, th[t].device_id)
                    ELSE <<>>
       IN IF SlotExhausted(th[t].qtd, th[t].max_devices, found)
          THEN Finish(t, HTTPException(403, "slot exhausted"))
          ELSE th' = [th EXCEPT ![t].pc = "act_upsert"]
    /\ UNCHANGED <<license, activation, usage, nextId, nextUuid, now, workers, faults>>

\* lines 141-149: new token, expiry 30 days from now, upsert of the row
ActUpsert(t) ==
    /\ th[t].pc = "act_upsert"
    /\ LET token == Uuid(nextUuid)
           expires_at == strftime(now + ThirtyDays)
           row == [id |-> nextId, license_key_hash |-> th[t].lic_hash,
                   device_id |-> th[t].device_id, token |-> token,
                   fingerprint |-> th[t].fingerprint,
                   activated_at |-> now_utc_str(now), expires_at |-> expires_at]
       IN /\ activation' = InsertOrReplace(activation, row)
          /\ th' = [th EXCEPT ![t].pc = "act_usage", ![t].token = token, ![t].exp = expires_at]
    /\ nextId' = nextId + 1
    /\ nextUuid' = nextUuid + 1
    /\ UNCHANGED <<license, usage, now, workers, faults>>

\* lines 151-156: log the activation and answer
ActUsage(t) ==
    /\ th[t].pc = "act_usage"
    /\ usage' = InsertUsage(usage, now_utc_str(now), th[t].lic_hash, th[t].device_id,
                            <<"activate">>, <<>>)
    /\ Finish(t, [NoResp EXCEPT !.code = 200, !.kind = "activate_ok", !.token = th[t].token,
                                !.exp = th[t].exp, !.max_devices = th[t].max_devices,
                                !.reason = "ok"])
    /\ UNCHANGED <<license, activation, nextId, nextUuid, now, workers, faults>>

\* ------------------------------------------------------------ POST /validate
\* line 170: the negative answer for a token that has no row
NotFoundResult == [NoResp EXCEPT !.code = 200, !.kind = "validate", !.valid = FALSE,
                                 !.reason = "not found"]

\* lines 160-170: read and strip the fields, reject empty ones, find the row
\* of the token and the device
BeginValidate(t, raw_token, raw_dev) ==
    /\ CanBegin(t)
    /\ LET token == Strip(raw_token)
           device_id == Strip(raw_dev)
           row == SelectByToken(activation, token, device_id)
           locals == [Idle EXCEPT !.op = "validate", !.token = token, !.device_id = device_id]
       IN IF token = <<>> \/ device_id = <<>>
          THEN Start(t, [locals EXCEPT !.pc = "done", !.resp = HTTPException(400, "missing")])
          ELSE IF row = <<>>
          THEN Start(t, [locals EXCEPT !.pc = "done", !.resp = NotFoundResult])
          ELSE Start(t, [locals EXCEPT !.pc = "val_usage", !.row = row])
    /\ UNCHANGED <<license, activation, usage, nextId, nextUuid, now, workers, faults>>

\* a bug: the instant of expiry itself is not valid any more
IsValid_Strict(t_now, expires_at) == t_now < strptime(expires_at)

\* line 173: valid = datetime.utcnow() <= exp
IsValid(t_now, expires_at) == t_now <= strptime(expires_at)

\* a bug: a validation that finds its row expired deletes it
ValUsage_Purge(t) ==
    /\ th[t].pc = "val_usage"
    /\ LET row == th[t].row[1]
           valid == IsValid(now, row.expires_at)
       IN /\ usage' = InsertUsage(usage, now_utc_str(now), row.license_key_hash,
                                  th[t].device_id,
                                  IF valid THEN <<"validate_ok">> ELSE <<"validate_expired">>,
                                  <<>>)
          /\ activation' = IF valid THEN activation
                           ELSE {r \in activation : r.token # th[t].token}
          /\ Finish(t, [NoResp EXCEPT !.code = 200, !.kind = "validate", !.valid = valid,
                                      !.reason = IF valid THEN "valid" ELSE "expired"])
    /\ UNCHANGED <<license, nextId, nextUuid, now, workers, faults>>

\* a bug: a successful validation slides the expiry of the row
ValUsage_Sliding(t) ==
    /\ th[t].pc = "val_usage"
    /\ LET row == th[t].row[1]
           valid == IsValid(now, row.expires_at)
       IN /\ usage' = InsertUsage(usage, now_utc_str(now), row.license_key_hash,
                                  th[t].device_id,
                                  IF valid THEN <<"validate_ok">> ELSE <<"validate_expired">>,
                                  <<>>)
          /\ activation' = IF valid
                           THEN UpdateExpires(activation, strftime(now + ThirtyDays), th[t].token)
                           ELSE activation
          /\ Finish(t, [NoResp EXCEPT !.code = 200, !.kind = "validate", !.valid = valid,
                                      !.reason = IF valid THEN "valid" ELSE "expired"])
    /\ UNCHANGED <<license, nextId, nextUuid, now, workers, faults>>

\* lines 172-181: compare the clock with the expiry, log the attempt, answer
ValUsage(t) ==
    /\ th[t].pc = "val_usage"
    /\ LET row == th[t].row[1]
           valid == IsValid(now, row.expires_at)
       IN /\ usage' = InsertUsage(usage, now_utc_str(now), row.license_key_hash,
                                  th[t].device_id,
                                  IF valid THEN <<"validate_ok">> ELSE <<"validate_expired">>,
                                  <<>>)
          /\ Finish(t, [NoResp EXCEPT !.code = 200, !.kind = "validate", !.valid = valid,
                                      !.reason = IF valid THEN "valid" ELSE "expired"])
    /\ UNCHANGED <<license, activation, nextId, nextUuid, now, workers, faults>>

\* --------------------------------------------------------------- POST /renew
\* a bug: a row that has expired is treated as absent
BeginRenew_RejectExpired(t, raw_token, raw_dev) ==
    /\ CanBegin(t)
    /\ LET token == Strip(raw_token)
           device_id == Strip(raw_dev)
           found == SelectByToken(activation, token, device_id)
           row == IF found # <<>> /\ ~IsValid(now, found[1].expires_at) THEN <<>> ELSE found
           locals == [Idle EXCEPT !.op = "renew", !.token = token, !.device_id = device_id]
       IN IF token = <<>> \/ device_id = <<>>
          THEN Start(t, [locals EXCEPT !.pc = "done", !.resp = HTTPException(400, "missing")])
          ELSE IF row = <<>>
          THEN Start(t, [locals EXCEPT !.pc = "done",
                                       !.resp = HTTPException(404, "activation not found")])
          ELSE Start(t, [locals EXCEPT !.pc = "ren_update", !.row = row])
    /\ UNCHANGED <<license, activation, usage, nextId, nextUuid, now, workers, faults>>

\* lines 185-195: read and strip the fields, reject empty ones, find the row
BeginRenew(t, raw_token, raw_dev) ==
    /\ CanBegin(t)
    /\ LET token == Strip(raw_token)
           device_id == Strip(raw_dev)
           row == SelectByToken(activation, token, device_id)
           locals == [Idle EXCEPT !.op = "renew", !.token = token, !.device_id = device_id]
       IN IF token = <<>> \/ device_id = <<>>
          THEN Start(t, [locals EXCEPT !.pc = "done", !.resp = HTTPException(400, "missing")])
          ELSE IF row = <<>>
          THEN Start(t, [locals EXCEPT !.pc = "done",
                                       !.resp = HTTPException(404, "activation not found")])
          ELSE Start(t, [locals EXCEPT !.pc = "ren_update", !.row = row])
    /\ UNCHANGED <<license, activation, usage, nextId, nextUuid, now, workers, faults>>

\* lines 197-199: the new expiry is written to the rows that have the token
RenUpdate(t) ==
    /\ th[t].pc = "ren_update"
    /\ LET new_exp == strftime(now + ThirtyDays)
       IN /\ activation' = UpdateExpires(activation, new_exp, th[t].token)
          /\ th' = [th EXCEPT ![t].pc = "ren_usage", ![t].exp = new_exp]
    /\ UNCHANGED <<license, usage, nextId, nextUuid, now, workers, faults>>

\* lines 201-205: log the renewal and answer
RenUsage(t) ==
    /\ th[t].pc = "ren_usage"
    /\ usage' = InsertUsage(usage, now_utc_str(now), th[t].row[1].license_key_hash,
                            th[t].device_id, <<"renew">>, <<th[t].exp>>)
    /\ Finish(t, [NoResp EXCEPT !.code = 200, !.kind = "renew_ok", !.exp = th[t].exp,
                                !.reason = "ok"])
    /\ UNCHANGED <<license, activation, nextId, nextUuid, now, workers, faults>>

\* --------------------------------------------------------------- POST /usage
\* data.get("event") or "run"
OrRun(e) == IF e = <<>> THEN <<"run">> ELSE e

\* lines 232-243: the whole handler, one INSERT
AddUsage(t, raw_hash, raw_dev, raw_event) ==
    /\ CanBegin(t)
    /\ LET lic_hash == Strip(raw_hash)
           device_id == Strip(raw_dev)
           event == Strip(OrRun(raw_event))
           locals == [Idle EXCEPT !.op = "usage", !.lic_hash = lic_hash,
                                  !.device_id = device_id, !.event = event, !.pc = "done"]
       IN IF lic_hash = <<>> \/ device_id = <<>>
          THEN /\ Start(t, [locals EXCEPT !.resp = HTTPException(400, "missing")])
               /\ usage' = usage
          ELSE /\ Start(t, [locals EXCEPT !.resp = [NoResp EXCEPT !.code = 200,
                                                                   !.kind = "usage_ok",
                                                                   !.reason = "ok"]])
               /\ usage' = InsertUsage(usage, now_utc_str(now), lic_hash, device_id, event, <<>>)
    /\ UNCHANGED <<license, activation, nextId, nextUuid, now, workers, faults>>

\* ------------------------------------------------------------------- system
\* the response has been sent; the thread goes back to the pool
Return(t) ==
    /\ th[t].pc = "done"
    /\ th' = [th EXCEPT ![t] = Idle]
    /\ UNCHANGED <<license, activation, usage, nextId, nextUuid, now, workers, faults>>

\* the clock moves on by one tick
Tick ==
    /\ now % ThirtyDays < MaxSubTicks
    /\ now' = now + 1
    /\ UNCHANGED <<license, activation, usage, nextId, nextUuid, workers, faults, th>>

\* thirty days pass; no request is in flight that long
Jump ==
    /\ now < Horizon
    /\ InFlight = 0
    /\ now' = now + ThirtyDays
    /\ UNCHANGED <<license, activation, usage, nextId, nextUuid, workers, faults, th>>

\* the tokens a client can present: none, one never issued, the issued ones
\* (also with white space around them)
TokenInputs ==
    {<<>>, <<"x">>} \cup {Uuid(n) : n \in 1..(nextUuid - 1)}
        \cup {<<" ">> \o Uuid(n) \o <<" ">> : n \in 1..(nextUuid - 1)}

HashInputs == {<<>>, sha256(<<"A">>)}
PingDevices == {<<>>, <<"D1", " ">>}
EventInputs == {<<>>, <<"run", " ">>}

Begin(t) ==
    \/ \E k \in RawKeys, d \in RawDevices, fp \in Fingerprints : BeginActivate(t, k, d, fp)
    \/ \E tok \in TokenInputs, d \in RawDevices : BeginValidate(t, tok, d)
    \/ \E tok \in TokenInputs, d \in RawDevices : BeginRenew(t, tok, d)
    \/ \E h \in HashInputs, d \in PingDevices, e \in EventInputs : AddUsage(t, h, d, e)

Step(t) ==
    \/ ActCheck(t) \/ ActUpsert(t) \/ ActUsage(t)
    \/ ValUsage(t)
    \/ RenUpdate(t) \/ RenUsage(t)
    \/ Return(t)

Next == (\E t \in Threads : Begin(t) \/ Step(t)) \/ Tick \/ Jump

\* the server as deployed: concurrent requests
Spec == Init /\ [][Next]_vars

\* the server with its requests serialized
SpecSeq == InitSeq /\ [][Next]_vars

\* the server with its requests serialized, on licenses without a ceiling
SpecUnset == InitUnset /\ [][Next]_vars

\* ------------------------------------------------------- activate, atomic
\* lines 113-149 run as one step: no statement of another request comes
\* between the COUNT(*), the admission test and the INSERT OR REPLACE
ActivateAtomic(t, raw_key, raw_dev, fp) ==
    /\ CanBegin(t)
    /\ LET license_key == Strip(raw_key)
           device_id == Strip(raw_dev)
           lic_hash == sha256(license_key)
           lic_row == SelectLicense(license, lic_hash)
           err == ActivateError(license_key, device_id, lic_row)
           max_devices == OrOne(lic_row[1].max_devices)
           qtd == CountActivations(activation, lic_hash)
           found == IF qtd >= max_devices
                    THEN SelectPair(activation, lic_hash, device_id)
                    ELSE <<>>
           token == Uuid(nextUuid)
           expires_at == strftime(now + ThirtyDays)
           row == [id |-> nextId, license_key_hash |-> lic_hash,
                   device_id |-> device_id, token |-> token, fingerprint |-> fp,
                   activated_at |-> now_utc_str(now), expires_at |-> expires_at]
           locals == [Idle EXCEPT !.op = "activate", !.lic_hash = lic_hash,
                                  !.device_id = device_id, !.fingerprint = fp]
       IN IF err # NoResp
          THEN /\ Start(t, [locals EXCEPT !.pc = "done", !.resp = err])
               /\ UNCHANGED <<activation, nextId, nextUuid>>
          ELSE IF SlotExhausted(qtd, max_devices, found)
          THEN /\ Start(t, [locals EXCEPT !.pc = "done", !.max_devices = max_devices,
                                          !.qtd = qtd,
                                          !.resp = HTTPException(403, "slot exhausted")])
               /\ UNCHANGED <<activation, nextId, nextUuid>>
          ELSE /\ Start(t, [locals EXCEPT !.pc = "act_usage", !.max_devices = max_devices,
                                          !.qtd = qtd, !.token = token, !.exp = expires_at])
               /\ activation' = InsertOrReplace(activation, row)
               /\ nextId' = nextId + 1
               /\ nextUuid' = nextUuid + 1
    /\ UNCHANGED <<license, usage, now, workers, faults>>

BeginAtomic(t) ==
    \/ \E k \in RawKeys, d \in RawDevices, fp \in Fingerprints : ActivateAtomic(t, k, d, fp)
    \/ \E tok \in TokenInputs, d \in RawDevices : BeginValidate(t, tok, d)
    \/ \E tok \in TokenInputs, d \in RawDevices : BeginRenew(t, tok, d)
    \/ \E h \in HashInputs, d \in PingDevices, e \in EventInputs : AddUsage(t, h, d, e)

StepAtomic(t) ==
    \/ ActUsage(t)
    \/ ValUsage(t)
    \/ RenUpdate(t) \/ RenUsage(t)
    \/ Return(t)

NextAtomic == (\E t \in Threads : BeginAtomic(t) \/ StepAtomic(t)) \/ Tick \/ Jump

\* the server with concurrent requests, of which every Activate runs its
\* count, test and upsert without interruption
SpecAtomic == Init /\ [][NextAtomic]_vars

\* ------------------------------------------------------------ store failures
\* what FastAPI answers when a handler lets an exception escape
InternalServerError == [NoResp EXCEPT !.code = 500, !.kind = "error",
                                      !.reason = "internal server error"]

\* a bug: the failed statement rolls the activation back
ActUsageFail_Rollback(t) ==
    /\ th[t].pc = "act_usage"
    /\ faults < MaxFaults
    /\ faults' = faults + 1
    /\ activation' = {r \in activation : r.token # th[t].token}
    /\ Finish(t, InternalServerError)
    /\ UNCHANGED <<license, usage, nextId, nextUuid, now, workers>>

\* lines 152-154: the INSERT INTO usage raises sqlite3.Error (the database is
\* locked, the disk is full).  The upsert was committed at line 149; no
\* try/except surrounds the statement, so the exception leaves the handler:
\* line 156 is not reached.
ActUsageFail(t) ==
    /\ th[t].pc = "act_usage"
    /\ faults < MaxFaults
    /\ faults' = faults + 1
    /\ Finish(t, InternalServerError)
    /\ UNCHANGED <<license, activation, usage, nextId, nextUuid, now, workers>>

\* lines 175-177: the INSERT INTO usage of validate raises; lines 179-181 are
\* not reached
ValUsageFail(t) ==
    /\ th[t].pc = "val_usage"
    /\ faults < MaxFaults
    /\ faults' = faults + 1
    /\ Finish(t, InternalServerError)
    /\ UNCHANGED <<license, activation, usage, nextId, nextUuid, now, workers>>

\* lines 201-203: the INSERT INTO usage of renew raises, after the UPDATE was
\* committed at line 199; line 205 is not reached
RenUsageFail(t) ==
    /\ th[t].pc = "ren_usage"
    /\ faults < MaxFaults
    /\ faults' = faults + 1
    /\ Finish(t, InternalServerError)
    /\ UNCHANGED <<license, activation, usage, nextId, nextUuid, now, workers>>

UsageFail(t) == ActUsageFail(t) \/ ValUsageFail(t) \/ RenUsageFail(t)

NextFault == Next \/ (\E t \in Threads : UsageFail(t))

\* the server, its requests serialized, on a store whose usage table can
\* refuse an INSERT
SpecFault == InitSeq /\ [][NextFault]_vars

TypeOK ==
    /\ nextId >= 1 /\ nextUuid >= 1 /\ now >= 0
    /\ Len(usage) <= MaxUsage
    /\ workers \in 1..NumThreads
    /\ faults \in 0..MaxFaults
    /\ now <= Horizon + MaxSubTicks

\* ---------------------------------------------------- notions of the claims
\* the thread t takes this step
Moved(t) == th'[t] # th[t]

\* the device_ids recorded for a license
DevicesOf(tbl, h) == {r.device_id : r \in {x \in tbl : x.license_key_hash = h}}

\* the rows of a (key_hash, device_id) pair
RowsOfPair(tbl, h, d) == {r \in tbl : r.license_key_hash = h /\ r.device_id = d}

\* the rows a (token, device_id) pair matches
RowsOfToken(tbl, token, d) == {r \in tbl : r.token = token /\ r.device_id = d}

\* max_devices(X), an unset or zero ceiling counting as 1
Ceiling(l) == IF l.max_devices \in {<<>>, <<0>>} THEN 1 ELSE l.max_devices[1]

\* C1: for every license the number of distinct device_ids in the ledger is
\* at most its max_devices, in every reachable state, concurrent Activate
\* requests included.
C1_DeviceCeiling ==
    \A l \in license :
        Cardinality(DevicesOf(activation, l.license_key_hash)) <= Ceiling(l)

\* C2: every step of an Activate call for a (key_hash, device_id) pair that
\* already has a row leaves the set of device_ids of that license unchanged,
\* and with it the number of slots the license has in use.
C2_ActivateIdempotent ==
    [][\A t \in Threads :
          (Moved(t) /\ th'[t].op = "activate"
             /\ RowsOfPair(activation, th'[t].lic_hash, th'[t].device_id) # {})
          => /\ DevicesOf(activation', th'[t].lic_hash) = DevicesOf(activation, th'[t].lic_hash)
             /\ CountActivations(activation', th'[t].lic_hash)
                   = CountActivations(activation, th'[t].lic_hash)]_vars

\* a pair that was activated before has been activated again
C2_Witness ==
    \E t \in Threads :
        /\ th[t].pc = "act_usage"
        /\ \E i \in 1..Len(usage) :
              /\ usage[i].event = <<"activate">>
              /\ usage[i].license_key_hash = th[t].lic_hash
              /\ usage[i].device_id = th[t].device_id

\* C3: the ledger holds at most one row per (key_hash, device_id) pair in
\* every reachable state, requests on the same pair interleaved or not.
C3_UniqueRow ==
    \A r1, r2 \in activation :
        (r1.license_key_hash = r2.license_key_hash /\ r1.device_id = r2.device_id) => r1 = r2

\* two Activate requests for the same pair have both written their row
C3_Witness ==
    \E t1, t2 \in Threads :
        /\ t1 # t2
        /\ th[t1].pc = "act_usage" /\ th[t2].pc = "act_usage"
        /\ th[t1].lic_hash = th[t2].lic_hash /\ th[t1].device_id = th[t2].device_id

\* C4: an Activate call for a device that has a row of the (active) license
\* never fails, at the ceiling or not; its upsert leaves the row with a token
\* that no row held before, and the call answers 200 with the token it issued.
C4_Reactivation ==
    [][\A t \in Threads :
          (Moved(t) /\ th'[t].op = "activate"
             /\ RowsOfPair(activation, th'[t].lic_hash, th'[t].device_id) # {}
             /\ \E l \in license : l.license_key_hash = th'[t].lic_hash /\ l.status = "active")
          => /\ th'[t].resp.kind # "error"
             /\ th[t].pc = "act_check" => th'[t].pc = "act_upsert"
             /\ th'[t].pc = "done" =>
                   /\ th'[t].resp.code = 200
                   /\ th'[t].resp.token = th[t].token
                   /\ th'[t].resp.token # <<>>
             /\ th[t].pc = "act_upsert" =>
                   /\ \A r \in activation : r.token # th'[t].token
                   /\ \A r \in RowsOfPair(activation', th[t].lic_hash, th[t].device_id) :
                         r.token = th'[t].token]_vars

\* a device has been admitted although the count had reached the ceiling
C4_Witness ==
    \E t \in Threads : th[t].pc = "act_usage" /\ th[t].qtd >= th[t].max_devices

\* C5: when an active license has at least max_devices rows and the device
\* (its id not empty) has none, the Activate call ends with 403 and none of its steps changes the
\* ledger or the usage log.
C5_SlotExhausted ==
    [][\A t \in Threads :
          (Moved(t) /\ th'[t].op = "activate" /\ th'[t].device_id # <<>>
             /\ RowsOfPair(activation, th'[t].lic_hash, th'[t].device_id) = {}
             /\ \E l \in license :
                   /\ l.license_key_hash = th'[t].lic_hash /\ l.status = "active"
                   /\ CountActivations(activation, l.license_key_hash) >= Ceiling(l))
          => /\ activation' = activation /\ usage' = usage
             /\ th'[t].pc \in {"act_check", "done"}
             /\ th[t].pc = "act_check" => th'[t].pc = "done"
             /\ th'[t].pc = "done" => th'[t].resp = HTTPException(403, "slot exhausted")]_vars

\* a new device has been turned away at the ceiling
C5_Witness ==
    \E t \in Threads :
        /\ th[t].op = "activate" /\ th[t].pc = "done"
        /\ th[t].resp = HTTPException(403, "slot exhausted")
        /\ RowsOfPair(activation, th[t].lic_hash, th[t].device_id) = {}

\* C6: Activate with well-formed fields answers 404 when no license has the
\* key_hash and 403 when the license is not active, and that step leaves the
\* ledger and the usage log as they were, whatever they hold.
C6_LicenseErrors ==
    [][\A t \in Threads :
          (Moved(t) /\ th[t].pc = "idle" /\ th'[t].op = "activate"
             /\ th'[t].lic_hash # sha256(<<>>) /\ th'[t].device_id # <<>>)
          => LET L == {l \in license : l.license_key_hash = th'[t].lic_hash}
             IN /\ L = {} =>
                      /\ th'[t].pc = "done" /\ th'[t].resp.kind = "error"
                      /\ th'[t].resp.code = 404
                      /\ activation' = activation /\ usage' = usage
                /\ (L # {} /\ \A l \in L : l.status # "active") =>
                      /\ th'[t].pc = "done" /\ th'[t].resp.kind = "error"
                      /\ th'[t].resp.code = 403
                      /\ activation' = activation /\ usage' = usage
                /\ (\E l \in L : l.status = "active") => th'[t].pc = "act_check"]_vars

\* a suspended license has been refused for a device that holds a row of
\* another license
C6_Witness ==
    \E t \in Threads :
        /\ th[t].op = "activate" /\ th[t].pc = "done" /\ th[t].resp.code = 403
        /\ th[t].lic_hash = sha256(<<"S">>)
        /\ \E r \in activation : r.device_id = th[t].device_id

\* C7: a well-formed Validate answers 200, with valid=true iff a row matches
\* token and device_id and now <= its expires_at, with reason "not found" iff
\* no row matches both, and with reason "expired" otherwise.
C7_ValidateResult ==
    [][\A t \in Threads :
          (Moved(t) /\ th'[t].op = "validate" /\ th'[t].pc = "done"
             /\ th'[t].token # <<>> /\ th'[t].device_id # <<>>)
          => LET M == RowsOfToken(activation, th'[t].token, th'[t].device_id)
                 ok == \E r \in M : now <= r.expires_at * TicksPerSec
                 resp == th'[t].resp
             IN /\ resp.code = 200 /\ resp.kind = "validate"
                /\ resp.valid <=> ok
                /\ resp.reason = "not found" <=> M = {}
                /\ resp.reason = "expired" <=> (M # {} /\ ~ok)
                /\ resp.reason = "valid" <=> ok]_vars

\* a token that exists has been presented with the id of another device
C7_Witness ==
    \E t \in Threads :
        /\ th[t].op = "validate" /\ th[t].pc = "done" /\ th[t].resp.reason = "not found"
        /\ \E r \in activation : r.token = th[t].token /\ r.device_id # th[t].device_id

\* C8: no step of a Validate call changes the activation table.
C8_ValidateReadOnly ==
    [][\A t \in Threads :
          (Moved(t) /\ (th[t].op = "validate" \/ th'[t].op = "validate"))
          => activation' = activation /\ nextId' = nextId]_vars

\* a Validate call has found its row and answered
C8_Witness ==
    \E t \in Threads :
        /\ th[t].op = "validate" /\ th[t].pc = "done" /\ th[t].resp.valid
        /\ RowsOfToken(activation, th[t].token, th[t].device_id) # {}

C10_RenewNotFound ==
    [][\A t \in Threads :
          /\ (Moved(t) /\ th[t].pc = "idle" /\ th'[t].op = "renew"
                /\ th'[t].token # <<>> /\ th'[t].device_id # <<>>)
             => IF RowsOfToken(activation, th'[t].token, th'[t].device_id) = {}
                THEN /\ th'[t].pc = "done"
                     /\ th'[t].resp.kind = "error" /\ th'[t].resp.code = 404
                     /\ activation' = activation /\ usage' = usage
                ELSE th'[t].pc = "ren_update"
          /\ (Moved(t) /\ th[t].pc = "ren_update")
             => \E r \in RowsOfToken(activation', th[t].token, th[t].device_id) :
                   IsValid(now, r.expires_at)]_vars

\* a row that Validate had found expired has been renewed and is valid again
C10_Witness ==
    \E t \in Threads :
        /\ th[t].pc = "ren_usage"
        /\ \E r \in RowsOfToken(activation, th[t].token, th[t].device_id) :
              /\ IsValid(now, r.expires_at)
              /\ \E i \in 1..Len(usage) :
                    /\ usage[i].event = <<"validate_expired">>
                    /\ usage[i].device_id = r.device_id
                    /\ usage[i].license_key_hash = r.license_key_hash

\* C11: when the usage INSERT of an Activate, Validate or Renew call fails,
\* the call still answers what it answers when the INSERT succeeds (token,
\* expiry and max_devices; the valid/expired verdict; new_expires_at), never
\* an error.
C11_UsageFailureHarmless ==
    [][\A t \in Threads :
          (Moved(t) /\ th[t].pc \in {"act_usage", "val_usage", "ren_usage"} /\ usage' = usage)
          => /\ th'[t].pc = "done"
             /\ th'[t].resp.kind # "error"
             /\ th[t].pc = "act_usage" =>
                   th'[t].resp = [NoResp EXCEPT !.code = 200, !.kind = "activate_ok",
                                                !.token = th[t].token, !.exp = th[t].exp,
                                                !.max_devices = th[t].max_devices,
                                                !.reason = "ok"]
             /\ th[t].pc = "val_usage" =>
                   /\ th'[t].resp.kind = "validate"
                   /\ th'[t].resp.valid = IsValid(now, th[t].row[1].expires_at)
             /\ th[t].pc = "ren_usage" =>
                   th'[t].resp = [NoResp EXCEPT !.code = 200, !.kind = "renew_ok",
                                                !.exp = th[t].exp, !.reason = "ok"]]_vars

\* C12: a (key_hash, device_id) pair that has a row in the ledger has a row
\* after every step of every request and of the clock: rows are replaced or
\* updated, never deleted, however long ago they expired.
C12_RowsNeverDeleted ==
    [][\A r \in activation :
          RowsOfPair(activation', r.license_key_hash, r.device_id) # {}]_vars

\* a Validate call has found a row expired, and the row is in the ledger
C12_Witness ==
    \E t \in Threads :
        /\ th[t].op = "validate" /\ th[t].pc = "done" /\ th[t].resp.reason = "expired"
        /\ \E r \in RowsOfToken(activation, th[t].token, th[t].device_id) :
              now > strptime(r.expires_at)

\* C13: every step leaves the usage events recorded so far as they are and
\* in their order: the log after the step is the log before it, extended.
C13_UsageAppendOnly ==
    [][/\ Len(usage') >= Len(usage)
       /\ SubSeq(usage', 1, Len(usage)) = usage]_vars

\* the log holds an event of a handler followed by a ping for the same device
C13_Witness ==
    \E i, j \in 1..Len(usage) :
        /\ i < j
        /\ usage[i].event = <<"activate">> /\ usage[j].event = <<"run">>
        /\ usage[i].device_id = usage[j].device_id

\* the canonical form the specification gives a raw license key: trimmed,
\* upper-cased, characters other than letters, digits and hyphen dropped
ToUpper(c) == IF c = "a" THEN "A" ELSE c

KeyChars == {"A", "B", "S", "X", "-"}

Canonical(raw) ==
    LET Allowed(c) == c \in KeyChars
    IN SelectSeq([i \in 1..Len(raw) |-> ToUpper(raw[i])], Allowed)

\* C14: raw license keys that differ only in surrounding white space, in
\* letter case or in characters outside letters, digits and hyphen have the
\* same key_hash: an Activate call that carries one of them computes the hash
\* of every other and so finds the same license.
C14_KeyCanonical ==
    [][\A t \in Threads :
          (Moved(t) /\ th[t].pc = "idle" /\ th'[t].op = "activate")
          => \A k1, k2 \in RawKeys :
                (th'[t].lic_hash = sha256(Strip(k1)) /\ Canonical(k1) = Canonical(k2))
                => /\ th'[t].lic_hash = sha256(Strip(k2))
                   /\ SelectLicense(license, th'[t].lic_hash)
                         = SelectLicense(license, sha256(Strip(k2)))]_vars

\* C15: when every Activate runs count, test and upsert as one atomic step,
\* no license has more rows than its max_devices in any state reachable from
\* the empty ledger, whatever Activate, Validate, Renew and usage requests
\* run and interleave.
C15_CeilingWhenAtomic ==
    \A l \in license : CountActivations(activation, l.license_key_hash) <= Ceiling(l)

\* while an admitted Activate has yet to log, a concurrent Activate of the
\* same license for another device has been turned away at the ceiling
C15_Witness ==
    \E t1, t2 \in Threads :
        /\ th[t1].op = "activate" /\ th[t1].pc = "act_usage"
        /\ th[t2].op = "activate" /\ th[t2].resp = HTTPException(403, "slot exhausted")
        /\ th[t1].lic_hash = th[t2].lic_hash /\ th[t1].device_id # th[t2].device_id
        /\ \E l \in license :
              /\ l.license_key_hash = th[t1].lic_hash
              /\ CountActivations(activation, l.license_key_hash) = Ceiling(l)

\* C16: when the usage INSERT of an Activate fails, the upsert stays: the
\* failing step, and the return of the thread after it, leave the ledger as it
\* was, with the row of the pair carrying the token and the expiry the call
\* had issued.
C16_NoRollback ==
    [][\A t \in Threads :
          (Moved(t) /\ th[t].op = "activate"
             /\ (th'[t].resp = InternalServerError \/ th[t].resp = InternalServerError))
          => /\ activation' = activation
             /\ \E r \in RowsOfPair(activation', th[t].lic_hash, th[t].device_id) :
                   r.token = th[t].token /\ r.expires_at = th[t].exp]_vars

\* an Activate has answered 500 and the row it wrote is in the ledger
C16_Witness ==
    \E t \in Threads :
        /\ th[t].op = "activate" /\ th[t].pc = "done" /\ th[t].resp = InternalServerError
        /\ \E r \in RowsOfPair(activation, th[t].lic_hash, th[t].device_id) :
              r.token = th[t].token

\* the rows that carry the token issued last for their (key_hash, device_id) pair
LatestRows(tbl) ==
    {r \in tbl : \A q \in RowsOfPair(tbl, r.license_key_hash, r.device_id) : q.id <= r.id}

\* the tokens issued so far
IssuedTokens == {Uuid(n) : n \in 1..(nextUuid - 1)}

\* C17: a well-formed Validate or Renew finds a row exactly when its token is
\* the one issued last for a pair of its device: with a token that a
\* re-activation has replaced, Validate answers "not found" and Renew 404, in
\* whatever later state the call is made; with the replacing token the row is
\* found.
C17_LatestTokenOnly ==
    [][\A t \in Threads :
          (Moved(t) /\ th[t].pc = "idle" /\ th'[t].op \in {"validate", "renew"}
             /\ th'[t].token # <<>> /\ th'[t].device_id # <<>>)
          => IF \E r \in LatestRows(activation) :
                   r.token = th'[t].token /\ r.device_id = th'[t].device_id
             THEN /\ th'[t].pc = (IF th'[t].op = "validate" THEN "val_usage" ELSE "ren_update")
                  /\ th'[t].row # <<>> /\ th'[t].row[1].token = th'[t].token
             ELSE /\ th'[t].pc = "done"
                  /\ th'[t].op = "validate" => th'[t].resp = NotFoundResult
                  /\ th'[t].op = "renew" =>
                        th'[t].resp = HTTPException(404, "activation not found")
                  /\ activation' = activation /\ usage' = usage]_vars

\* Renew has been refused for a token that was issued and then replaced by a
\* re-activation of its device
C17_Witness ==
    \E t \in Threads :
        /\ th[t].op = "renew" /\ th[t].pc = "done" /\ th[t].resp.code = 404
        /\ th[t].token \in IssuedTokens
        /\ \A r \in activation : r.token # th[t].token
        /\ \E r \in activation : r.device_id = th[t].device_id /\ r.id > Len(th[t].token)

\* C18: the UPDATE of every Renew call, which goes on to answer 200 with
\* new_expires_at, changes exactly one row, the one matching the token and
\* device_id of the call, to that expiry, also when a concurrent Activate of
\* the same pair has replaced the token since the call looked its row up: no
\* Renew answers 200 after an UPDATE of zero rows.
C18_RenewUpdatesOneRow ==
    [][\A t \in Threads :
          (Moved(t) /\ th[t].pc = "ren_update")
          => LET M == RowsOfToken(activation, th[t].token, th[t].device_id)
             IN /\ Cardinality(M) = 1
                /\ \E r \in RowsOfToken(activation', th[t].token, th[t].device_id) :
                      r.expires_at = th'[t].exp]_vars

\* the instants at which a token issued 30 days before x is looked at: the
\* seconds around x, the instant of issue, and one day after x
Around(x) ==
    ((x - 2 * TicksPerSec)..(x + 2 * TicksPerSec))
        \cup {x - ThirtyDays, x + SecondsPerDay * TicksPerSec}

\* the start of the second that the instant x falls in
WholeSecond(x) == (x \div TicksPerSec) * TicksPerSec

\* C19 as stated: the row an Activate writes at time t expires at t + 30
\* days exactly: it passes Validate's test at every instant now <= t + 30 days
\* and fails it at every instant now > t + 30 days.
C19_ThirtyDaysExact ==
    [][\A t \in Threads :
          (Moved(t) /\ th[t].pc = "act_upsert")
          => \A r \in RowsOfPair(activation', th[t].lic_hash, th[t].device_id) :
                /\ strptime(r.expires_at) = now + ThirtyDays
                /\ \A n \in Around(now + ThirtyDays) :
                      IsValid(n, r.expires_at) <=> n <= now + ThirtyDays]_vars

\* C19: the row an Activate writes at time t expires at the whole second of
\* t + 30 days: it passes Validate's test at every instant up to the start of
\* that second (so whenever now <= t + 30 days - 1 s) and fails it at every
\* later instant (so whenever now > t + 30 days); and a Validate call that
\* has read a row which is in the ledger as read answers valid=true iff now is
\* at most the stored expiry, and valid=false with reason "expired" otherwise.
C19_ThirtyDaysWindow ==
    [][\A t \in Threads :
          /\ (Moved(t) /\ th[t].pc = "act_upsert")
             => \A r \in RowsOfPair(activation', th[t].lic_hash, th[t].device_id) :
                   /\ r.token = th'[t].token
                   /\ r.expires_at * TicksPerSec = WholeSecond(now + ThirtyDays)
                   /\ \A n \in Around(now + ThirtyDays) :
                         /\ IsValid(n, r.expires_at) <=> n <= WholeSecond(now + ThirtyDays)
                         /\ n + TicksPerSec <= now + ThirtyDays => IsValid(n, r.expires_at)
                         /\ n > now + ThirtyDays => ~IsValid(n, r.expires_at)
          /\ (Moved(t) /\ th[t].pc = "val_usage" /\ th[t].row[1] \in activation)
             => LET ok == now <= th[t].row[1].expires_at * TicksPerSec
                IN /\ th'[t].resp.valid <=> ok
                   /\ th'[t].resp.reason = (IF ok THEN "valid" ELSE "expired")]_vars

\* a row written within a second has been found expired by Validate less
\* than a second after the start of the second it expires in
C19_Witness ==
    \E t \in Threads :
        /\ th[t].op = "validate" /\ th[t].pc = "done" /\ th[t].resp.reason = "expired"
        /\ \E r \in RowsOfToken(activation, th[t].token, th[t].device_id) :
              /\ now > strptime(r.expires_at)
              /\ now < strptime(r.expires_at) + TicksPerSec

\* the active licenses whose max_devices is unset (NULL) or zero
UnsetLicenses == {l \in license : l.status = "active" /\ l.max_devices \in {<<>>, <<0>>}}

\* C20: a license whose max_devices is unset or zero has the ceiling 1: a
\* well-formed Activate takes 1 for max_devices and reports it; while the
\* license has no row the device is admitted and the call answers 200; once
\* it has a row, a device that has none is refused with 403 and nothing is
\* written; the license never has two rows.
C20_UnsetIsOne ==
    [][\A t \in Threads :
          (Moved(t) /\ th'[t].op = "activate" /\ th'[t].device_id # <<>>
             /\ \E l \in UnsetLicenses : l.license_key_hash = th'[t].lic_hash)
          => LET h == th'[t].lic_hash
                 d == th'[t].device_id
             IN /\ th'[t].max_devices = 1
                /\ CountActivations(activation', h) <= 1
                /\ CountActivations(activation, h) = 0 =>
                      /\ th'[t].resp.kind # "error"
                      /\ th[t].pc = "act_check" => th'[t].pc = "act_upsert"
                /\ th[t].pc = "act_usage" =>
                      /\ th'[t].resp.code = 200 /\ th'[t].resp.max_devices = 1
                      /\ th'[t].resp.token = th[t].token
                /\ (CountActivations(activation, h) >= 1 /\ RowsOfPair(activation, h, d) = {}) =>
                      /\ activation' = activation /\ usage' = usage
                      /\ th[t].pc = "act_check" =>
                            th'[t].resp = HTTPException(403, "slot exhausted")]_vars

\* the second device of a license whose max_devices is NULL has been refused
\* after the first was admitted and told max_devices = 1
C20_Witness ==
    \E t \in Threads :
        /\ th[t].op = "activate" /\ th[t].resp = HTTPException(403, "slot exhausted")
        /\ \E l \in license : l.license_key_hash = th[t].lic_hash /\ l.max_devices = <<>>
        /\ \E r \in activation :
              /\ r.license_key_hash = th[t].lic_hash /\ r.device_id # th[t].device_id
        /\ \E i \in 1..Len(usage) :
              usage[i].event = <<"activate">> /\ usage[i].license_key_hash = th[t].lic_hash
====
